---- MODULE Spec2Model ----
(***************************************************************************)
(* Model of the gounity filesystem / NFS share accessors and of the       *)
(* HTTP logging helpers (src/api/api_logging.go).                          *)
(*                                                                         *)
(* The accessors hold no state of their own: every run of an accessor is  *)
(* one call of the client.  The model records, for the last run, the      *)
(* operation, its arguments, the sequence of executor calls it issued     *)
(* (executeWithRetryAuthenticate, one record per call, with the outcome   *)
(* the array answered) and the value it returned.                         *)
(***************************************************************************)
EXTENDS Integers, Sequences, FiniteSets, TLC

VARIABLES op, args, calls, ret, logged, wOut, msgBody

vars == <<op, args, calls, ret, logged, wOut, msgBody>>

(* ---------------------------- program constants ------------------------ *)

FsNameMaxLength == 63

ReadOnlyAccessType == "READ_ONLY"
ReadWriteAccessType == "READ_WRITE"
ReadOnlyRootAccessType == "READ_ONLY_ROOT"
ReadWriteRootAccessType == "READ_WRITE_ROOT"

NoneDefaultAccess == "0"
ReadOnlyDefaultAccess == "1"
ReadWriteDefaultAccess == "2"

ThinProvisioning == "ThinProvisioning"
DataReduction == "DataReduction"

(* ------------------------------- bounds -------------------------------- *)

MaxNameLen == 65
MaxHosts == 2
MaxBytes == 4
MaxIndent == 2

(* --------------------------- input domains ----------------------------- *)

\* Executor outcomes: success, array 404, any other failure (transport,
\* non-404 array error).
Outcomes == {"ok", "notfound", "error"}

FsIds == {"", "fs_1", "fs_2"}
ShareIds == {"", "nfs_1"}
ShareNames == {"", "share1"}
FsNames == {"", "fs_a"}
NasIds == {"", "nas_1"}
PoolIds == {"", "pool_1"}
Paths == {"/path"}
HostIdSet == {"h1", "h2"}
HostLists == UNION {[1..k -> HostIdSet] : k \in 0..MaxHosts}
AccessTypes == {ReadOnlyAccessType, ReadWriteAccessType, ReadOnlyRootAccessType,
                ReadWriteRootAccessType, "OTHER"}
DefaultAccesses == {NoneDefaultAccess, ReadOnlyDefaultAccess, ReadWriteDefaultAccess}

\* Responses of the storage-pool lookup: FastVP status of a found pool.
PoolResults == [out : {"ok"}, fastVP : {0, 1}] \cup [out : {"error"}, fastVP : {0}]
\* Responses of the license lookup: installed / valid flags of the feature.
LicenseResults == [out : {"ok"}, installed : BOOLEAN, valid : BOOLEAN]
                  \cup [out : {"error"}, installed : {FALSE}, valid : {FALSE}]

\* Storage-resource ID the array reports for a filesystem.
FsStorageResource(id) == IF id = "fs_1" THEN "sv_1" ELSE "sv_2"

(* ------------------------------ helpers -------------------------------- *)

\* One executeWithRetryAuthenticate call: method, templated URI, body,
\* and what the array answered.
Call(m, uri, body, o) ==
  [m |-> m, uri |-> uri, body |-> body, out |-> o, resp |-> [none |-> TRUE]]

Get(res, by, id, o) == Call("GET", <<res, by, id>>, [none |-> TRUE], o)

\* Result of one accessor run: executor calls issued and value returned.
\* kind: "nil" (no error), "validation", "sentinel" (FilesystemNotFoundError),
\* "wrapped" (a new error wrapping a message), "raw" (executor error as is).
\* val: index in calls of the response returned to the caller, 0 if none.
R(cs, k, msg, v) == [calls |-> cs, ret |-> [kind |-> k, msg |-> msg, val |-> v]]

IsMutating(c) == c.m \in {"POST", "DELETE"}

FormatBool(b) == IF b THEN "true" ELSE "false"

(* ----------------------------- accessors ------------------------------- *)

FindFilesystemByName(name, o) ==
  IF name = "" THEN R(<<>>, "validation", "Filesystem Name shouldn't be empty", 0)
  ELSE IF o # "ok"
       THEN R(<<Get("filesystem", "name", name, o)>>, "sentinel", "FilesystemNotFoundError", 0)
       ELSE R(<<Get("filesystem", "name", name, o)>>, "nil", "", 1)

FindFilesystemById(id, o) ==
  IF id = "" THEN R(<<>>, "validation", "Filesystem Id shouldn't be empty", 0)
  ELSE IF o # "ok"
       THEN R(<<Get("filesystem", "id", id, o)>>, "sentinel", "FilesystemNotFoundError", 0)
       ELSE R(<<Get("filesystem", "id", id, o)>>, "nil", "", 1)

FsNameTooLong_Mutant(len) == len >= FsNameMaxLength

FsNameTooLong(len) == len > FsNameMaxLength

\* storagepool.go is not part of this repository's sources here.
FindStoragePoolById(id, pr) ==
  IF id = "" THEN R(<<>>, "validation", "Pool Id shouldn't be empty", 0)
  ELSE LET c == [Get("pool", "id", id, pr.out) EXCEPT !.resp = pr] IN
       IF pr.out # "ok" THEN R(<<c>>, "wrapped", "unable to find storage pool", 0)
       ELSE R(<<c>>, "nil", "", 1)

\* volume.go is not part of this repository's sources here.
IsFeatureLicensed(feature, lr) ==
  LET c == [Get("license", "id", feature, lr.out) EXCEPT !.resp = lr] IN
  IF lr.out # "ok" THEN R(<<c>>, "wrapped", "license lookup failed", 0)
  ELSE R(<<c>>, "nil", "", 1)

Licensed_Mutant(lr) == lr.installed \/ lr.valid

Licensed(lr) == lr.installed /\ lr.valid

\* a: [nameLen, pool, nas, thin, dr, tiering]; pr: pool lookup response;
\* l1, l2: ThinProvisioning / DataReduction license responses; o: POST outcome.
CreateFilesystem(a, pr, l1, l2, o) ==
  IF a.nameLen = 0 THEN R(<<>>, "validation", "filesystem name should not be empty.", 0)
  ELSE IF FsNameTooLong(a.nameLen)
  THEN R(<<>>, "validation", "filesystem name should not exceed 63 characters.", 0)
  ELSE
  LET p == FindStoragePoolById(a.pool, pr) IN
  \* the error text embeds the pool lookup's error (a validation error for
  \* an empty pool id)
  IF p.ret.kind # "nil"
  THEN R(p.calls, IF p.ret.kind = "validation" THEN "validation" ELSE "wrapped",
         "unable to get PoolID", 0)
  ELSE
  LET t == IsFeatureLicensed(ThinProvisioning, l1)
      c1 == p.calls \o t.calls IN
  IF t.ret.kind # "nil"
  THEN R(c1, "wrapped", "Unable to get license info for feature: ThinProvisioning", 0)
  ELSE
  LET d == IsFeatureLicensed(DataReduction, l2)
      c2 == c1 \o d.calls IN
  IF d.ret.kind # "nil"
  THEN R(c2, "wrapped", "Unable to get license info for feature: DataReduction", 0)
  ELSE IF ~Licensed(l1) /\ a.thin
  THEN R(c2, "wrapped", "Thin Provisioning is not supported on array", 0)
  ELSE IF ~Licensed(l2) /\ a.dr
  THEN R(c2, "wrapped", "Data Reduction is not supported on array", 0)
  ELSE
  LET body == [name |-> a.nameLen, pool |-> a.pool, nas |-> a.nas,
               isThinEnabled |-> IF Licensed(l1) THEN FormatBool(a.thin) ELSE "absent",
               isDataReductionEnabled |-> IF Licensed(l2) THEN FormatBool(a.dr) ELSE "absent",
               fastVP |-> IF pr.fastVP # 0
                          THEN [present |-> TRUE, tiering |-> a.tiering]
                          ELSE [present |-> FALSE, tiering |-> 0]]
      post == Call("POST", <<"storageResource", "action", "createFilesystem">>, body, o)
      c3 == c2 \o <<post>> IN
  IF o # "ok" THEN R(c3, "raw", "executor error", 0)
  ELSE R(c3, "nil", "", Len(c3))

DeleteFilesystem(id, o1, o2) ==
  IF id = "" THEN R(<<>>, "validation", "Filesystem Id cannot be empty", 0)
  ELSE
  LET f == FindFilesystemById(id, o1) IN
  IF f.ret.kind # "nil" THEN R(f.calls, "sentinel", "FilesystemNotFoundError", 0)
  ELSE
  LET d == Call("DELETE", <<"storageResource", "id", FsStorageResource(id)>>, [none |-> TRUE], o2)
      cs == f.calls \o <<d>> IN
  IF o2 # "ok" THEN R(cs, "wrapped", "Delete Filesystem Failed", 0)
  ELSE R(cs, "nil", "", 0)

ModifyFilesystemUri(resId) == <<"storageResource", "modify", resId>>

CreateNFSShare_RetFirst(name, path, id, acc, o1, o2, o3) ==
  IF id = "" THEN R(<<>>, "validation", "Filesystem Id cannot be empty", 0)
  ELSE
  LET f1 == FindFilesystemById(id, o1) IN
  IF f1.ret.kind # "nil" THEN R(f1.calls, "sentinel", "FilesystemNotFoundError", 0)
  ELSE
  LET body == [nfsShares |-> <<[name |-> name, path |-> path, defaultAccess |-> acc]>>]
      post == Call("POST", ModifyFilesystemUri(FsStorageResource(id)), body, o2)
      c1 == f1.calls \o <<post>> IN
  IF o2 # "ok" THEN R(c1, "wrapped", "Create NFS Share failed", 0)
  ELSE
  LET f2 == FindFilesystemById(id, o3)
      c2 == c1 \o f2.calls IN
  IF f2.ret.kind # "nil" THEN R(c2, "sentinel", "FilesystemNotFoundError", 0)
  ELSE R(c2, "nil", "", f1.ret.val)

CreateNFSShare_NoErrCheck(name, path, id, acc, o1, o2, o3) ==
  IF id = "" THEN R(<<>>, "validation", "Filesystem Id cannot be empty", 0)
  ELSE
  LET f1 == FindFilesystemById(id, o1) IN
  IF f1.ret.kind # "nil" THEN R(f1.calls, "sentinel", "FilesystemNotFoundError", 0)
  ELSE
  LET body == [nfsShares |-> <<[name |-> name, path |-> path, defaultAccess |-> acc]>>]
      post == Call("POST", ModifyFilesystemUri(FsStorageResource(id)), body, o2)
      c1 == f1.calls \o <<post>>
      f2 == FindFilesystemById(id, o3)
      c2 == c1 \o f2.calls IN
  IF f2.ret.kind # "nil" THEN R(c2, "sentinel", "FilesystemNotFoundError", 0)
  ELSE R(c2, "nil", "", Len(c1) + f2.ret.val)

\* Returns the filesystem of the second lookup, issued after the modify POST.
CreateNFSShare(name, path, id, acc, o1, o2, o3) ==
  IF id = "" THEN R(<<>>, "validation", "Filesystem Id cannot be empty", 0)
  ELSE
  LET f1 == FindFilesystemById(id, o1) IN
  IF f1.ret.kind # "nil" THEN R(f1.calls, "sentinel", "FilesystemNotFoundError", 0)
  ELSE
  LET body == [nfsShares |-> <<[name |-> name, path |-> path, defaultAccess |-> acc]>>]
      post == Call("POST", ModifyFilesystemUri(FsStorageResource(id)), body, o2)
      c1 == f1.calls \o <<post>> IN
  IF o2 # "ok" THEN R(c1, "wrapped", "Create NFS Share failed", 0)
  ELSE
  LET f2 == FindFilesystemById(id, o3)
      c2 == c1 \o f2.calls IN
  IF f2.ret.kind # "nil" THEN R(c2, "sentinel", "FilesystemNotFoundError", 0)
  ELSE R(c2, "nil", "", Len(c1) + f2.ret.val)

FindNFSShareByName(name, o) ==
  IF name = "" THEN R(<<>>, "validation", "NFS Share Name shouldn't be empty", 0)
  ELSE IF o # "ok"
       THEN R(<<Get("nfsShare", "name", name, o)>>, "wrapped", "Unable to find NFS Share", 0)
       ELSE R(<<Get("nfsShare", "name", name, o)>>, "nil", "", 1)

FindNFSShareById(id, o) ==
  IF id = "" THEN R(<<>>, "validation", "NFS Share Id shouldn't be empty", 0)
  ELSE IF o # "ok"
       THEN R(<<Get("nfsShare", "id", id, o)>>, "wrapped", "Unable to find NFS Share", 0)
       ELSE R(<<Get("nfsShare", "id", id, o)>>, "nil", "", 1)

Absent == [present |-> FALSE, ids |-> <<>>]

\* NFSShareParameters of the modify payload for one access type.
HostAccessParams(at, hosts) ==
  LET l == [present |-> TRUE, ids |-> [i \in 1..Len(hosts) |-> [ID |-> hosts[i]]]] IN
  IF at = ReadOnlyAccessType
  THEN [readOnlyHosts |-> l, readWriteHosts |-> Absent,
        readOnlyRootAccessHosts |-> Absent, rootAccessHosts |-> Absent]
  ELSE IF at = ReadWriteAccessType
  THEN [readOnlyHosts |-> Absent, readWriteHosts |-> l,
        readOnlyRootAccessHosts |-> Absent, rootAccessHosts |-> Absent]
  ELSE IF at = ReadOnlyRootAccessType
  THEN [readOnlyHosts |-> Absent, readWriteHosts |-> Absent,
        readOnlyRootAccessHosts |-> l, rootAccessHosts |-> Absent]
  ELSE [readOnlyHosts |-> Absent, readWriteHosts |-> Absent,
        readOnlyRootAccessHosts |-> Absent, rootAccessHosts |-> l]

ModifyNFSShareHostAccess(id, shareId, hosts, at, o1, o2) ==
  IF id = "" THEN R(<<>>, "validation", "Filesystem Id cannot be empty", 0)
  ELSE
  LET f == FindFilesystemById(id, o1) IN
  IF f.ret.kind # "nil" THEN R(f.calls, "sentinel", "FilesystemNotFoundError", 0)
  ELSE
  LET body == [nfsShareModify |-> <<[nfsShare |-> shareId,
                                     params |-> HostAccessParams(at, hosts)]>>]
      post == Call("POST", ModifyFilesystemUri(FsStorageResource(id)), body, o2)
      cs == f.calls \o <<post>> IN
  IF o2 # "ok" THEN R(cs, "wrapped", "Modify NFS Share failed", 0)
  ELSE R(cs, "nil", "", 0)

DeleteNFSShare(id, shareId, o1, o2, o3) ==
  IF id = "" THEN R(<<>>, "validation", "Filesystem Id cannot be empty", 0)
  ELSE
  LET f == FindFilesystemById(id, o1) IN
  IF f.ret.kind # "nil" THEN R(f.calls, "sentinel", "FilesystemNotFoundError", 0)
  ELSE IF shareId = "" THEN R(f.calls, "validation", "NFS Share Id cannot be empty", 0)
  ELSE
  LET s == FindNFSShareById(shareId, o2)
      c1 == f.calls \o s.calls IN
  IF s.ret.kind # "nil" THEN R(c1, "wrapped", "Unable to find NFS Share", 0)
  ELSE
  LET body == [nfsShareDelete |-> <<[nfsShare |-> shareId]>>]
      post == Call("POST", ModifyFilesystemUri(FsStorageResource(id)), body, o3)
      c2 == c1 \o <<post>> IN
  IF o3 # "ok" THEN R(c2, "wrapped", "Delete NFS Share Failed", 0)
  ELSE R(c2, "nil", "", 0)

FindNASServerById(id, o) ==
  IF id = "" THEN R(<<>>, "validation", "NAS Server Id shouldn't be empty", 0)
  ELSE IF o # "ok"
       THEN R(<<Get("nasServer", "id", id, o)>>, "wrapped", "Unable to find NAS Server", 0)
       ELSE R(<<Get("nasServer", "id", id, o)>>, "nil", "", 1)

(* ------------------------- logging and indentation --------------------- *)

\* Bytes are abstracted to a small alphabet; "CR" and "LF" are \r and \n,
\* "K" stands for a run of KRunLen bytes 'a' (no CR, no LF).
MaxScanTokenSize == 65536
KRunLen == MaxScanTokenSize - 1
Alphabet == {"a", "K", "CR", "LF"}
Bytes == UNION {[1..k -> Alphabet] : k \in 0..MaxBytes}
ContentTypes == {"json", "octet", "none"}

\* Number of bytes a sequence of symbols stands for.
\* Body lines of a response: lengths in bytes around the limits of the two
\* scanners of logResponse (4 indentation bytes are added before the second).
BodyLineLens == {1, MaxScanTokenSize - 5, MaxScanTokenSize - 4,
                 MaxScanTokenSize - 1, MaxScanTokenSize}
\* "R<k>" stands for a run of k bytes 'a' inside a body line.
RunSym(k) == "R" \o ToString(k)
RunLens == {k - 1 : k \in BodyLineLens} \ {0}

SymLen(x) ==
  IF x = "K" THEN KRunLen
  ELSE IF \E k \in RunLens : RunSym(k) = x THEN CHOOSE k \in RunLens : RunSym(k) = x
  ELSE 1

RECURSIVE ByteLen(_)
ByteLen(t) ==
  IF t = <<>> THEN 0
  ELSE SymLen(Head(t)) + ByteLen(Tail(t))

DropCR(t) == IF Len(t) > 0 /\ t[Len(t)] = "CR" THEN SubSeq(t, 1, Len(t) - 1) ELSE t

RECURSIVE ScanLines(_)
ScanLines(b) ==
  IF b = <<>> THEN <<>>
  ELSE IF \E i \in 1..Len(b) : b[i] = "LF"
  THEN LET i == CHOOSE j \in 1..Len(b) : b[j] = "LF" /\ \A k \in 1..(j - 1) : b[k] # "LF" IN
       IF ByteLen(SubSeq(b, 1, i - 1)) >= MaxScanTokenSize THEN <<>>
       ELSE <<DropCR(SubSeq(b, 1, i - 1))>> \o ScanLines(SubSeq(b, i + 1, Len(b)))
  ELSE IF ByteLen(b) >= MaxScanTokenSize THEN <<>>
  ELSE <<DropCR(b)>>

Spaces(n) == [x \in 1..n |-> " "]

\* Body of the for loop of WriteIndentedN: n spaces, the line, and, when the
\* scanner yields another line, "\n" before it.
RECURSIVE IndentLoop(_, _)
IndentLoop(toks, n) ==
  Spaces(n) \o Head(toks) \o
    (IF Len(toks) = 1 THEN <<>> ELSE <<"LF">> \o IndentLoop(Tail(toks), n))

\* Bytes written to a writer that never fails; the return value is nil (a
\* scanner error is not checked).
WriteIndentedN(b, n) ==
  LET toks == ScanLines(b) IN
  IF toks = <<>> THEN <<>> ELSE IndentLoop(toks, n)

WriteIndented(b) == WriteIndentedN(b, 4)

isBinOctetBody(ct) == ct = "octet"

\* httputil.DumpRequest / DumpResponse output: start line, headers, blank
\* line, and the body when asked for: one line of len bytes, "B" followed by
\* a run of len - 1 bytes.
BodyOf(len) == IF len = 1 THEN <<"B">> ELSE <<"B", RunSym(len - 1)>>

Dump(start, ct, body, len) ==
  <<start, "CR", "LF">>
  \o (IF ct = "none" THEN <<>> ELSE <<ct, "CR", "LF">>)
  \o <<"CR", "LF">>
  \o (IF body THEN BodyOf(len) ELSE <<>>)

RECURSIVE JoinLn(_)
JoinLn(ls) == IF ls = <<>> THEN <<>> ELSE Head(ls) \o <<"LF">> \o JoinLn(Tail(ls))

\* httputil.DumpRequest / DumpResponse with body = TRUE drain the body
\* (drainBody): when reading it fails, the dump fails and the message keeps
\* its original, partly read Body; otherwise the Body is replaced by an
\* in-memory copy of the same bytes.  With body = FALSE the Body is set aside
\* and restored untouched.  readOk: reading the body succeeds.
DumpOk(ct, readOk) == isBinOctetBody(ct) \/ readOk

BodyAfterDump(ct, readOk) ==
  IF ~isBinOctetBody(ct) /\ ~readOk THEN "partlyRead" ELSE "intact"

\* Messages passed to the debug log by logRequest: the dump is built into w
\* but the call of lf is commented out.
logRequest(ct, readOk, len) ==
  IF ~DumpOk(ct, readOk) THEN <<>>
  ELSE LET w == <<"LF", "REQUEST BANNER", "LF">>
                 \o WriteIndented(Dump("Q", ct, ~isBinOctetBody(ct), len)) \o <<"LF">> IN
       <<>>

\* Messages passed to log.Debug by logResponse.
logResponse(ct, readOk, len) ==
  IF ~DumpOk(ct, readOk) THEN <<>>
  ELSE LET bw == WriteIndented(Dump("S", ct, ~isBinOctetBody(ct), len))
           w == <<"LF", "RESPONSE BANNER", "LF">> \o JoinLn(ScanLines(bw)) IN
       <<w>>

(* ------------------------------ actions -------------------------------- *)

Idle == op = "idle"

Apply(name, a, r) ==
  /\ op' = name
  /\ args' = a
  /\ calls' = r.calls
  /\ ret' = r.ret
  /\ UNCHANGED <<logged, wOut, msgBody>>

FindFilesystemByNameA ==
  /\ Idle
  /\ \E n \in FsNames, o \in Outcomes :
       Apply("FindFilesystemByName", [name |-> n], FindFilesystemByName(n, o))

FindFilesystemByIdA ==
  /\ Idle
  /\ \E id \in FsIds, o \in Outcomes :
       Apply("FindFilesystemById", [fsId |-> id], FindFilesystemById(id, o))

CreateFilesystemA ==
  /\ Idle
  /\ \E len \in 0..MaxNameLen, pool \in PoolIds, nas \in NasIds,
        thin \in BOOLEAN, dr \in BOOLEAN,
        pr \in PoolResults, l1 \in LicenseResults, l2 \in LicenseResults,
        o \in Outcomes :
       LET a == [nameLen |-> len, pool |-> pool, nas |-> nas, thin |-> thin,
                 dr |-> dr, tiering |-> 1] IN
       Apply("CreateFilesystem", a, CreateFilesystem(a, pr, l1, l2, o))

DeleteFilesystemA ==
  /\ Idle
  /\ \E id \in FsIds, o1 \in Outcomes, o2 \in Outcomes :
       Apply("DeleteFilesystem", [fsId |-> id], DeleteFilesystem(id, o1, o2))

CreateNFSShareA ==
  /\ Idle
  /\ \E n \in ShareNames, p \in Paths, id \in FsIds, acc \in DefaultAccesses,
        o1 \in Outcomes, o2 \in Outcomes, o3 \in Outcomes :
       Apply("CreateNFSShare", [name |-> n, path |-> p, fsId |-> id, acc |-> acc],
             CreateNFSShare(n, p, id, acc, o1, o2, o3))

FindNFSShareByNameA ==
  /\ Idle
  /\ \E n \in ShareNames, o \in Outcomes :
       Apply("FindNFSShareByName", [name |-> n], FindNFSShareByName(n, o))

FindNFSShareByIdA ==
  /\ Idle
  /\ \E id \in ShareIds, o \in Outcomes :
       Apply("FindNFSShareById", [shareId |-> id], FindNFSShareById(id, o))

ModifyNFSShareHostAccessA ==
  /\ Idle
  /\ \E id \in FsIds, sid \in ShareIds, h \in HostLists, at \in AccessTypes,
        o1 \in Outcomes, o2 \in Outcomes :
       Apply("ModifyNFSShareHostAccess",
             [fsId |-> id, shareId |-> sid, hosts |-> h, accessType |-> at],
             ModifyNFSShareHostAccess(id, sid, h, at, o1, o2))

DeleteNFSShareA ==
  /\ Idle
  /\ \E id \in FsIds, sid \in ShareIds, o1 \in Outcomes, o2 \in Outcomes, o3 \in Outcomes :
       Apply("DeleteNFSShare", [fsId |-> id, shareId |-> sid],
             DeleteNFSShare(id, sid, o1, o2, o3))

FindNASServerByIdA ==
  /\ Idle
  /\ \E id \in NasIds, o \in Outcomes :
       Apply("FindNASServerById", [nasId |-> id], FindNASServerById(id, o))

LogRequestA ==
  /\ Idle
  /\ \E ct \in ContentTypes, ok \in BOOLEAN, len \in BodyLineLens :
       /\ op' = "logRequest"
       /\ args' = [ctype |-> ct, readOk |-> ok, bodyLen |-> len]
       /\ logged' = logRequest(ct, ok, len)
       /\ msgBody' = BodyAfterDump(ct, ok)
       /\ UNCHANGED <<calls, ret, wOut>>

LogResponseA ==
  /\ Idle
  /\ \E ct \in ContentTypes, ok \in BOOLEAN, len \in BodyLineLens :
       /\ op' = "logResponse"
       /\ args' = [ctype |-> ct, readOk |-> ok, bodyLen |-> len]
       /\ logged' = logResponse(ct, ok, len)
       /\ msgBody' = BodyAfterDump(ct, ok)
       /\ UNCHANGED <<calls, ret, wOut>>

WriteIndentedNA ==
  /\ Idle
  /\ \E b \in Bytes, n \in 0..MaxIndent :
       /\ op' = "WriteIndentedN"
       /\ args' = [b |-> b, n |-> n]
       /\ wOut' = WriteIndentedN(b, n)
       /\ UNCHANGED <<calls, ret, logged, msgBody>>

WriteIndentedA ==
  /\ Idle
  /\ \E b \in Bytes :
       /\ op' = "WriteIndented"
       /\ args' = [b |-> b, n |-> 4]
       /\ wOut' = WriteIndented(b)
       /\ UNCHANGED <<calls, ret, logged, msgBody>>

Init ==
  /\ op = "idle"
  /\ args = [none |-> TRUE]
  /\ calls = <<>>
  /\ ret = [kind |-> "nil", msg |-> "", val |-> 0]
  /\ logged = <<>>
  /\ wOut = <<>>
  /\ msgBody = "intact"

Next ==
  \/ FindFilesystemByNameA
  \/ FindFilesystemByIdA
  \/ CreateFilesystemA
  \/ DeleteFilesystemA
  \/ CreateNFSShareA
  \/ FindNFSShareByNameA
  \/ FindNFSShareByIdA
  \/ ModifyNFSShareHostAccessA
  \/ DeleteNFSShareA
  \/ FindNASServerByIdA
  \/ LogRequestA
  \/ LogResponseA
  \/ WriteIndentedNA
  \/ WriteIndentedA

Spec == Init /\ [][Next]_vars

(* ------------------------------ properties ----------------------------- *)

Range(f) == {f[i] : i \in DOMAIN f}
CallIdx(uri) == {i \in 1..Len(calls) : calls[i].uri = uri}
Mutating == {i \in 1..Len(calls) : IsMutating(calls[i])}

\* Identifier / name arguments of the last accessor run that are empty.
HasEmptyIdArg ==
  CASE op \in {"FindFilesystemById", "DeleteFilesystem"} -> args.fsId = ""
    [] op \in {"FindFilesystemByName", "FindNFSShareByName"} -> args.name = ""
    [] op = "FindNFSShareById" -> args.shareId = ""
    [] op = "FindNASServerById" -> args.nasId = ""
    [] op = "CreateFilesystem" -> args.nameLen = 0 \/ args.pool = "" \/ args.nas = ""
    [] op = "CreateNFSShare" -> args.name = "" \/ args.fsId = ""
    [] op \in {"ModifyNFSShareHostAccess", "DeleteNFSShare"} ->
         args.fsId = "" \/ args.shareId = ""
    [] OTHER -> FALSE

\* C1: every accessor called with an empty identifier or name returns a
\* validation error and makes no executor call.
C1_EmptyIdNoCall ==
  HasEmptyIdArg => ret.kind = "validation" /\ calls = <<>>

\* C2: CreateFilesystem rejects a name longer than FsNameMaxLength with a
\* validation error and no executor call; names of length 1..63 pass the
\* check and the storage-pool lookup is issued.
C2_NameLengthChecked ==
  op = "CreateFilesystem" =>
    /\ args.nameLen > FsNameMaxLength => ret.kind = "validation" /\ calls = <<>>
    /\ args.nameLen \in 1..FsNameMaxLength =>
         /\ ret.msg # "filesystem name should not exceed 63 characters."
         /\ args.pool # "" => CallIdx(<<"pool", "id", args.pool>>) # {}

C2_Witness ==
  op = "CreateFilesystem" /\ args.nameLen = FsNameMaxLength + 1

CreateUri == <<"storageResource", "action", "createFilesystem">>
LicUri(f) == <<"license", "id", f>>
LicResp(f) == LET i == CHOOSE j \in CallIdx(LicUri(f)) : TRUE IN calls[i].resp
LicOk(f) == CallIdx(LicUri(f)) # {} /\ LicResp(f).out = "ok"
         /\ LicResp(f).installed /\ LicResp(f).valid
Posted == CallIdx(CreateUri) # {}
PostBody == calls[CHOOSE j \in CallIdx(CreateUri) : TRUE].body

\* C3: thin provisioning / data reduction requested without an installed and
\* valid license: error, no createFilesystem POST.  Licensed: the flag is
\* sent as "true"/"false".  Unlicensed and not requested: the field is
\* omitted and the license checks do not stop the creation.
C3_LicenseGate ==
  op = "CreateFilesystem" =>
    /\ args.thin /\ ~LicOk(ThinProvisioning) => ~Posted /\ ret.kind # "nil"
    /\ args.dr /\ ~LicOk(DataReduction) => ~Posted /\ ret.kind # "nil"
    /\ Posted =>
         /\ PostBody.isThinEnabled =
              IF LicOk(ThinProvisioning) THEN FormatBool(args.thin) ELSE "absent"
         /\ PostBody.isDataReductionEnabled =
              IF LicOk(DataReduction) THEN FormatBool(args.dr) ELSE "absent"
    /\ (/\ CallIdx(LicUri(DataReduction)) # {}
        /\ LicResp(DataReduction).out = "ok"
        /\ LicOk(ThinProvisioning) \/ ~args.thin
        /\ LicOk(DataReduction) \/ ~args.dr) => Posted

C3_Witness ==
  /\ op = "CreateFilesystem"
  /\ args.thin
  /\ CallIdx(LicUri(DataReduction)) # {}
  /\ LicResp(ThinProvisioning).out = "ok"
  /\ LicResp(ThinProvisioning).installed
  /\ ~LicResp(ThinProvisioning).valid

FsLookupIdx == CallIdx(<<"filesystem", "id", args.fsId>>)
ShareLookupIdx == CallIdx(<<"nfsShare", "id", args.shareId>>)
FirstOut(S) == calls[CHOOSE i \in S : \A j \in S : i <= j].out
DeleteIssued == \E i \in 1..Len(calls) : calls[i].m = "DELETE"
ModifyPosted == \E i \in 1..Len(calls) : calls[i].m = "POST"

\* C4 (as stated): DeleteFilesystem / DeleteNFSShare whose lookup of the
\* target reports not-found return the distinguished not-found error and
\* issue no delete.
C4_Original ==
  /\ op = "DeleteFilesystem" /\ FsLookupIdx # {} /\ FirstOut(FsLookupIdx) = "notfound" =>
       ret.kind = "sentinel" /\ ~DeleteIssued
  /\ op = "DeleteNFSShare" /\ ShareLookupIdx # {} /\ FirstOut(ShareLookupIdx) = "notfound" =>
       ret.kind = "sentinel" /\ ~ModifyPosted

HostLists4 == <<"readOnlyHosts", "readWriteHosts", "readOnlyRootAccessHosts", "rootAccessHosts">>
ListOf(at) ==
  CASE at = ReadOnlyAccessType -> "readOnlyHosts"
    [] at = ReadWriteAccessType -> "readWriteHosts"
    [] at = ReadOnlyRootAccessType -> "readOnlyRootAccessHosts"
    [] at = ReadWriteRootAccessType -> "rootAccessHosts"
    [] OTHER -> "none"
ModifyParams ==
  LET i == CHOOSE j \in 1..Len(calls) : calls[j].m = "POST" IN
  calls[i].body.nfsShareModify[1].params

\* C5: the modify payload of ModifyNFSShareHostAccess populates exactly the
\* list of the access type, with the host IDs in order; an access type
\* outside the four defined values populates no list.
C5_OneHostList ==
  op = "ModifyNFSShareHostAccess" /\ ModifyPosted =>
    \A k \in 1..4 :
      LET f == HostLists4[k] IN
      IF f = ListOf(args.accessType)
      THEN /\ ModifyParams[f].present
           /\ ModifyParams[f].ids = [i \in 1..Len(args.hosts) |-> [ID |-> args.hosts[i]]]
      ELSE ~ModifyParams[f].present

C6Args == [name |-> "share1", path |-> "/path", fsId |-> "fs_1", acc |-> ReadOnlyDefaultAccess]
AllCallsOk == \A i \in 1..Len(calls) : calls[i].out = "ok"

\* C6: with an executor answering every call, CreateNFSShare("share1",
\* "/path", "fs_1", ReadOnlyDefaultAccess) issues a GET of fs_1, a POST to the
\* modify URI of sv_1 carrying the one share, a second GET of fs_1, and
\* returns the filesystem of the second GET.
C6_CallSequence ==
  op = "CreateNFSShare" /\ args = C6Args /\ AllCallsOk =>
    /\ calls = << Get("filesystem", "id", "fs_1", "ok"),
                  Call("POST", <<"storageResource", "modify", "sv_1">>,
                       [nfsShares |-> <<[name |-> "share1", path |-> "/path",
                                         defaultAccess |-> "1"]>>], "ok"),
                  Get("filesystem", "id", "fs_1", "ok") >>
    /\ ret.kind = "nil" /\ ret.val = 3

C6_Witness ==
  op = "CreateNFSShare" /\ args = C6Args /\ AllCallsOk /\ Len(calls) = 3

LookupOps == {"FindFilesystemById", "FindFilesystemByName", "DeleteFilesystem",
              "CreateNFSShare", "ModifyNFSShareHostAccess", "DeleteNFSShare",
              "FindNFSShareById", "FindNFSShareByName"}
LastCall == calls[Len(calls)]
LookupFailed ==
  Len(calls) > 0 /\ LastCall.m = "GET" /\ LastCall.out # "ok"
  /\ LastCall.uri[1] \in {"filesystem", "nfsShare"}

\* C7 (as stated): a lookup failure yields the distinguished not-found error
\* exactly when the array reports the resource as not existing.
C7_Original ==
  op \in LookupOps /\ LookupFailed =>
    (ret.kind = "sentinel" <=> LastCall.out = "notfound")

AccessorOps == LookupOps \cup {"CreateFilesystem", "FindNASServerById"}

\* C8 (as stated): no request (method and URI) is issued twice, at most one
\* mutating request is issued, and a failed mutating request is the last call.
C8_Original ==
  op \in AccessorOps =>
    /\ \A i, j \in 1..Len(calls) :
         i # j => <<calls[i].m, calls[i].uri>> # <<calls[j].m, calls[j].uri>>
    /\ Cardinality(Mutating) <= 1
    /\ \A i \in Mutating : calls[i].out # "ok" => i = Len(calls)

\* C8 (amended): at most one mutating request; a failed mutating request is
\* the last call and its failure is returned; the only request issued twice
\* is CreateNFSShare's GET of the filesystem, once before and once after a
\* successful modify POST.
C8_NoRetry ==
  op \in AccessorOps =>
    /\ Cardinality(Mutating) <= 1
    /\ \A i \in Mutating : calls[i].out # "ok" => i = Len(calls) /\ ret.kind # "nil"
    /\ \A i, j \in 1..Len(calls) :
         i < j /\ <<calls[i].m, calls[i].uri>> = <<calls[j].m, calls[j].uri>> =>
           /\ op = "CreateNFSShare" /\ i = 1 /\ j = 3
           /\ calls[2].m = "POST" /\ calls[2].out = "ok"

C8_Witness ==
  op = "CreateNFSShare" /\ Len(calls) = 3

\* Segments of a byte sequence between LF bytes (k LF bytes give k+1 segments).
LFPos(b) == {i \in 1..Len(b) : b[i] = "LF"}
NthLF(b, k) == CHOOSE i \in LFPos(b) : Cardinality({j \in LFPos(b) : j <= i}) = k
AllSegs(b) ==
  LET N == Cardinality(LFPos(b))
      pos(k) == IF k = 0 THEN 0 ELSE IF k = N + 1 THEN Len(b) + 1 ELSE NthLF(b, k) IN
  [k \in 1..(N + 1) |-> SubSeq(b, pos(k - 1) + 1, pos(k) - 1)]
\* Lines of an input: its segments, without the empty one after a final LF.
InputLines(b) ==
  IF b = <<>> THEN <<>>
  ELSE IF b[Len(b)] = "LF" THEN SubSeq(AllSegs(b), 1, Len(AllSegs(b)) - 1)
  ELSE AllSegs(b)
ChompCR(t) == IF t # <<>> /\ t[Len(t)] = "CR" THEN SubSeq(t, 1, Len(t) - 1) ELSE t

RECURSIVE JoinIndented(_, _)
JoinIndented(ls, n) ==
  IF Len(ls) = 1 THEN Spaces(n) \o ls[1]
  ELSE Spaces(n) \o ls[1] \o <<"LF">> \o JoinIndented(Tail(ls), n)

IndentedAs(out, ls, n) ==
  IF ls = <<>> THEN out = <<>>
  ELSE /\ out = JoinIndented(ls, n)
       /\ LET segs == AllSegs(out) IN
          /\ Len(segs) = Len(ls)
          /\ \A i \in 1..Len(ls) :
               /\ SubSeq(segs[i], 1, n) = Spaces(n)
               /\ SubSeq(segs[i], n + 1, Len(segs[i])) = ls[i]

\* Banner lines of the response dump come first, then the indented dump.
DumpLines(msg) == LET ls == AllSegs(msg) IN SubSeq(ls, 3, Len(ls) - 1)

\* C9 (as stated, for responses): logResponse leaves the response's body
\* unaltered for every response, also when dumping fails, and when the dump
\* succeeds it logs an indented dump that holds the body iff the
\* Content-Type is not application/octet-stream.
C9_Original ==
  op = "logResponse" =>
    /\ msgBody = "intact"
    /\ args.ctype = "octet" \/ args.readOk =>
         /\ Len(logged) = 1
         /\ "B" \in Range(logged[1]) <=> args.ctype # "octet"
         /\ \A i \in 1..Len(DumpLines(logged[1])) :
              SubSeq(DumpLines(logged[1])[i], 1, 4) = Spaces(4)

\* C10 (as stated): WriteIndentedN writes all the input's lines (the text
\* between line feeds, a trailing carriage return removed as bufio.ScanLines
\* does), each prefixed by n spaces and separated by "\n", nothing for an
\* empty input, and stripping the prefixes gives back the input's lines.
C10_Original ==
  op \in {"WriteIndentedN", "WriteIndented"} =>
    LET ls == InputLines(args.b) IN
    IndentedAs(wOut, [i \in 1..Len(ls) |-> ChompCR(ls[i])], args.n)

====
